---- MODULE Spec2Model ----
(***************************************************************************)
(* Model of @dhmk/di (src/index.ts): containers, the ambient container     *)
(* slot, dependencies, singleton functions, bind, withContainer and        *)
(* getCaller, driven by the clients defined under "specifications".        *)
(*                                                                         *)
(* The library is synchronous.  One step of the model is one move of the   *)
(* client code that is running (the body given to withContainer, or the    *)
(* function of the dependency / singleton on top of the control stack):    *)
(* it calls a library operation, returns, or throws.  The step contains    *)
(* all the library code that runs until client code runs again.            *)
(***************************************************************************)
EXTENDS Integers, Sequences, FiniteSets

\* ---------------------------------------------------------------- bounds
\* Containers that exist at one time: in the cloning client, and in the
\* other clients.
MaxContainers == 3
MaxLive == 2
MaxDepth == 4
MaxRand == 2

\* -------------------------------------------------------------- universe
\* `undefined`, as the ambient slot's value, as a value and as a Map miss.
NoContainer == 0
Undefined == 0 - 1
NoFn == "undefined"
NoDep == "undefined"

Containers == 1..MaxContainers

\* Plain functions of the client: rand is the tests' counter `() => i++`,
\* noop a function that returns undefined.
PlainFns == {"rand", "noop"}
\* singletonFunction(fn) closures: sRand and sRand2 each wrap rand, sUndef
\* wraps noop.
SingletonFns == {"sRand", "sRand2", "sUndef"}
Fns == PlainFns \cup SingletonFns
\* dependency(defaultFn) closures:
\*   T = transient(rand), S = singleton(rand) (sRand inside),
\*   D = transient(noop), E = transient(noop),
\*   U = singleton(noop) (sUndef inside).
Deps == {"T", "S", "D", "E", "U"}

Errors == {"NoScope", "UserErr"}

VARIABLES
    globalContainerContext, \* the ambient slot: a container or NoContainer
    kind,                   \* per container slot: "free", "explicit", "temp"
    dependenciesMap,        \* per container: Deps -> Fns \cup {NoFn}
    singletonsStateMap,     \* per container: the WeakMap it references
    callersStack,           \* per container: sequence of Deps
    weakMaps,               \* per WeakMap: SingletonFns -> <<>> or <<state>>
    stack,                  \* control stack of library frames awaiting client code
    i,                      \* the counter behind rand
    bindRef,                \* the client has obtained `bind` from withContainer
    base,                   \* history: the container each container was created from
    computed,               \* history: per lineage root, the value each singleton function first returned
    invoked,                \* history: per lineage root, the singleton functions whose fn was called
    ev,                     \* the last client step and what it got back
    twin                    \* a second run of the same calls, kept by the comparing client

vars == <<globalContainerContext, kind, dependenciesMap, singletonsStateMap,
          callersStack, weakMaps, stack, i, bindRef, base, computed, invoked,
          ev, twin>>

\* ------------------------------------------------------- source constants
\* A library whose `transient` is an alias of `singleton`.
DefaultFnAllSingleton(d) ==
    CASE d = "T" -> "sRand"
      [] d = "S" -> "sRand"
      [] d = "D" -> "sUndef"
      [] d = "E" -> "sUndef"
      [] d = "U" -> "sUndef"

\* dependency(defaultFn): self[DEPENDENCY_TAG] = defaultFn.
\* singleton(fn) = dependency(singletonFunction(fn)).
DefaultFn(d) ==
    CASE d = "T" -> "rand"
      [] d = "S" -> "sRand"
      [] d = "D" -> "noop"
      [] d = "E" -> "noop"
      [] d = "U" -> "sUndef"

\* `DEPENDENCY_TAG in fn`
IsDependency(x) == x \in Deps

\* JavaScript truthiness of a value: 0 and undefined are falsy.
Truthy(v) == v # Undefined /\ v # 0

\* WeakMap entries `{ state }`; a miss is undefined.
NoEntry == <<>>
Entry(v) == <<v>>

\* A singleton closure that tests the cached state itself instead of the
\* entry that wraps it: `if (!state)`.
EntryMissingFalsy(e) == e = NoEntry \/ ~Truthy(e[1])

\* `!stateEntry` at the head of singletonFunction's closure.
EntryMissing(e) == e = NoEntry

EmptyDependenciesMap == [d \in Deps |-> NoFn]
EmptyWeakMap == [s \in SingletonFns |-> NoEntry]

\* ----------------------------------------------------------- control stack
\* A frame is library code waiting for the client function it called:
\*   wc   withContainer, with its context and its saved prevContext;
\*   dep  a dependency's closure, with the container whose dependenciesMap and
\*        callersStack it destructured, and the depFn it called;
\*   sing a singleton closure, with the ambient container at its call and the
\*        singletonsStateMap it destructured.
Frame(k, n, c, p, m, f) ==
    [kind |-> k, name |-> n, cont |-> c, prev |-> p, map |-> m, fn |-> f]
WcFrame(c, p) == Frame("wc", "", c, p, NoContainer, "body")
DepFrame(d, c, f) == Frame("dep", d, c, NoContainer, NoContainer, f)
SingFrame(s, c, m) == Frame("sing", s, c, NoContainer, m, s)

Top == stack[Len(stack)]

\* ev: op is the operation the step called or left ("dep", "sing", "bind",
\* "getCaller", "withContainer", "createContainer"); name its dependency or
\* singleton function; fn the function it went through; cont the container
\* it used; out is "run" (a client function was entered), "ok" (it
\* returned val / caller) or an error; arg is the function or dependency
\* given to bind.
Ev(op, name, fn, c, out, val, caller) ==
    [op |-> op, name |-> name, fn |-> fn, cont |-> c, out |-> out,
     val |-> val, caller |-> caller, arg |-> ""]

NoEv == Ev("init", "", "", NoContainer, "none", Undefined, NoDep)

\* The lineage root of a container: the container whose creation made the
\* chain of createContainer(base) calls it descends from.
\* The second run before any call: no overrides, no entries, rand at 0; val
\* is the value its last resolution returned, bound the clone in which the
\* first run made the bind the second run left out, split whether a
\* resolution has gone through different functions in the two runs.
NoTwin ==
    [dependenciesMap |-> [c \in Containers |-> EmptyDependenciesMap],
     weakMaps |-> [c \in Containers |-> EmptyWeakMap],
     i |-> 0, val |-> Undefined, bound |-> NoContainer, split |-> FALSE]

RECURSIVE Root(_)
Root(c) == IF base[c] = NoContainer THEN c ELSE Root(base[c])

FreeSlots == {c \in Containers : kind[c] = "free"}
NewSlot == CHOOSE c \in FreeSlots : \A x \in FreeSlots : c <= x
ExplicitContainers == {c \in Containers : kind[c] = "explicit"}
Live == {c \in Containers : kind[c] # "free"}

Init ==
    /\ globalContainerContext = NoContainer
    /\ kind = [c \in Containers |-> "free"]
    /\ dependenciesMap = [c \in Containers |-> EmptyDependenciesMap]
    /\ singletonsStateMap = [c \in Containers |-> NoContainer]
    /\ callersStack = [c \in Containers |-> <<>>]
    /\ weakMaps = [c \in Containers |-> EmptyWeakMap]
    /\ stack = <<>>
    /\ i = 0
    /\ bindRef = FALSE
    /\ base = [c \in Containers |-> NoContainer]
    /\ computed = [c \in Containers |-> EmptyWeakMap]
    /\ invoked = [c \in Containers |-> {}]
    /\ ev = NoEv
    /\ twin = NoTwin

\* ------------------------------------------------------------ createContainer
\* dependenciesMap: new Map(cont?.dependenciesMap)
createContainerDependenciesMap(cont) ==
    IF cont = NoContainer THEN EmptyDependenciesMap ELSE dependenciesMap[cont]

\* A createContainer whose WeakMap is one module-level object.
createContainerSingletonsStateMapGlobal(cont, new) ==
    IF cont = NoContainer THEN 1 ELSE singletonsStateMap[cont]

\* A createContainer that never reuses the WeakMap of cont.
createContainerSingletonsStateMapFresh(cont, new) == new

\* singletonsStateMap: cont?.singletonsStateMap ?? new WeakMap()
\* (the new WeakMap is named after the slot of the container that makes it)
createContainerSingletonsStateMap(cont, new) ==
    IF cont = NoContainer THEN new ELSE singletonsStateMap[cont]

\* The state of the containers after createContainer(cont) has filled slot
\* `new`; k is "explicit" for the client's own call and "temp" for the
\* default argument of withContainer.
createContainer(cont, new, k) ==
    /\ kind' = [kind EXCEPT ![new] = k]
    /\ dependenciesMap' =
         [dependenciesMap EXCEPT ![new] = createContainerDependenciesMap(cont)]
    /\ singletonsStateMap' =
         [singletonsStateMap EXCEPT ![new] = createContainerSingletonsStateMap(cont, new)]
    /\ callersStack' = [callersStack EXCEPT ![new] = <<>>]
    /\ base' = [base EXCEPT ![new] = cont]

\* The client calls createContainer(cont) or createContainer().
CreateContainer(cont) ==
    /\ FreeSlots # {}
    /\ cont \in {NoContainer} \cup ExplicitContainers
    /\ createContainer(cont, NewSlot, "explicit")
    /\ ev' = Ev("createContainer", "", "", NewSlot, "ok", Undefined, NoDep)
    /\ UNCHANGED <<globalContainerContext, weakMaps, stack, i, bindRef,
                   computed, invoked, twin>>

\* -------------------------------------------------------------- withContainer
\* The client calls withContainer(fn, context) or withContainer(fn): the
\* slot is saved and set, and fn starts running.
WithContainer(context) ==
    /\ Len(stack) < MaxDepth
    /\ context \in {NoContainer} \cup ExplicitContainers
    /\ IF context = NoContainer
         THEN /\ FreeSlots # {}
              /\ createContainer(NoContainer, NewSlot, "temp")
              /\ stack' = Append(stack, WcFrame(NewSlot, globalContainerContext))
              /\ globalContainerContext' = NewSlot
              /\ ev' = Ev("withContainer", "", "", NewSlot, "run", Undefined, NoDep)
         ELSE /\ stack' = Append(stack, WcFrame(context, globalContainerContext))
              /\ globalContainerContext' = context
              /\ ev' = Ev("withContainer", "", "", context, "run", Undefined, NoDep)
              /\ UNCHANGED <<kind, dependenciesMap, singletonsStateMap,
                             callersStack, base>>
    /\ bindRef' = TRUE
    /\ UNCHANGED <<weakMaps, i, computed, invoked, twin>>

\* An assertContainerContext that returns without throwing.
assertContainerContextSilent == "ok"

\* throw new Error("This function can run only inside `withContainer` function.")
assertContainerContextError == "NoScope"

\* assertContainerContext fails: the step throws into the client and
\* changes nothing else.
NoScope(op, name) ==
    /\ globalContainerContext = NoContainer
    /\ ev' = Ev(op, name, "", NoContainer, assertContainerContextError,
                Undefined, NoDep)
    /\ UNCHANGED <<globalContainerContext, kind, dependenciesMap,
                   singletonsStateMap, callersStack, weakMaps, stack, i,
                   bindRef, base, computed, invoked, twin>>

\* The singleton closure s is being computed for WeakMap m further down the
\* control stack (a circular resolution).
Computing(s, m) ==
    \E k \in 1..Len(stack) :
        stack[k].kind = "sing" /\ stack[k].name = s /\ stack[k].map = m

\* ----------------------------------------------------------------- dependency
\* let depFn = dependenciesMap.get(self); if (!depFn) depFn = defaultFn,
\* for the Map dm[c]
depFnIn(dm, c, d) == IF dm[c][d] = NoFn THEN DefaultFn(d) ELSE dm[c][d]

\* A dependency that ignores the entry of its container.
dependencyDepFnDefault(c, d) == DefaultFn(d)

\* depFn of dependency d when container c is ambient
dependencyDepFn(c, d) == depFnIn(dependenciesMap, c, d)

\* The client calls dependency d.
CallDep(d) ==
    \/ NoScope("dep", d)
    \/ /\ globalContainerContext # NoContainer
       /\ LET c == globalContainerContext
              depFn == dependencyDepFn(c, d)
              m == singletonsStateMap[c]
          IN /\ dependenciesMap' = [dependenciesMap EXCEPT ![c][d] = depFn]
             /\ IF depFn \in PlainFns
                  THEN \* depFn is a client function: it starts running
                       /\ Len(stack) < MaxDepth
                       /\ callersStack' = [callersStack EXCEPT ![c] = Append(@, d)]
                       /\ stack' = Append(stack, DepFrame(d, c, depFn))
                       /\ ev' = Ev("dep", d, depFn, c, "run", Undefined, NoDep)
                       /\ UNCHANGED invoked
                  ELSE IF EntryMissing(weakMaps[m][depFn])
                  THEN \* depFn is a singleton closure with no entry: fn() starts
                       /\ Len(stack) + 1 < MaxDepth
                       /\ ~Computing(depFn, m)
                       /\ callersStack' = [callersStack EXCEPT ![c] = Append(@, d)]
                       /\ stack' = stack \o <<DepFrame(d, c, depFn), SingFrame(depFn, c, m)>>
                       /\ invoked' = [invoked EXCEPT ![Root(c)] = @ \cup {depFn}]
                       /\ ev' = Ev("dep", d, depFn, c, "run", Undefined, NoDep)
                  ELSE \* the entry's state is returned; push and pop cancel
                       /\ ev' = Ev("dep", d, depFn, c, "ok", weakMaps[m][depFn][1],
                                   NoDep)
                       /\ UNCHANGED <<callersStack, stack, invoked>>
       /\ UNCHANGED <<globalContainerContext, kind, singletonsStateMap,
                      weakMaps, i, bindRef, base, computed, twin>>

\* ---------------------------------------------------------- singletonFunction
\* The client calls the singleton closure s directly.
CallSingleton(s) ==
    \/ NoScope("sing", s)
    \/ /\ globalContainerContext # NoContainer
       /\ LET c == globalContainerContext
              m == singletonsStateMap[c]
          IN IF EntryMissing(weakMaps[m][s])
               THEN /\ Len(stack) < MaxDepth
                    /\ ~Computing(s, m)
                    /\ stack' = Append(stack, SingFrame(s, c, m))
                    /\ invoked' = [invoked EXCEPT ![Root(c)] = @ \cup {s}]
                    /\ ev' = Ev("sing", s, s, c, "run", Undefined, NoDep)
               ELSE /\ ev' = Ev("sing", s, s, c, "ok", weakMaps[m][s][1], NoDep)
                    /\ UNCHANGED <<stack, invoked>>
       /\ UNCHANGED <<globalContainerContext, kind, dependenciesMap,
                      singletonsStateMap, callersStack, weakMaps, i, bindRef,
                      base, computed, twin>>

\* ---------------------------------------------------------------------- _bind
\* A bind that always takes the default function of a dependency argument.
bindFnDefault(c, fn) == IF IsDependency(fn) THEN DefaultFn(fn) ELSE fn

\* if (DEPENDENCY_TAG in fn) fn = dependenciesMap.get(fn) ?? fn[DEPENDENCY_TAG]
bindFn(c, fn) ==
    IF IsDependency(fn)
      THEN IF dependenciesMap[c][fn] # NoFn THEN dependenciesMap[c][fn]
                                             ELSE DefaultFn(fn)
      ELSE fn

\* A bind that writes into the container the ambient one descends from.
bindTargetRoot(c) == Root(c)

\* dependenciesMap.set(dependency, fn), on the ambient container c
bindTarget(c) == c

\* The client calls bind(d, fn) with the function withContainer gave it.
Bind(d, fn) ==
    /\ bindRef
    /\ \/ NoScope("bind", d)
       \/ /\ globalContainerContext # NoContainer
          /\ LET c == globalContainerContext
             IN /\ dependenciesMap' =
                     [dependenciesMap EXCEPT ![bindTarget(c)][d] = bindFn(c, fn)]
                /\ ev' = [Ev("bind", d, bindFn(c, fn), c, "ok", Undefined, NoDep)
                              EXCEPT !.arg = fn]
          /\ UNCHANGED <<globalContainerContext, kind, singletonsStateMap,
                         callersStack, weakMaps, stack, i, bindRef,
                         base, computed, invoked, twin>>

\* ------------------------------------------------------------------ getCaller
\* A getCaller that reads the last entry of the stack.
getCallerLast(cs) == IF Len(cs) >= 1 THEN cs[Len(cs)] ELSE NoDep

\* A getCaller that counts only the resolutions begun in the innermost
\* withContainer call in progress.
getCallerScoped(cs) ==
    LET wc == {k \in 1..Len(stack) : stack[k].kind = "wc"}
        own == {k \in 1..Len(stack) :
                   stack[k].kind = "dep" /\ \A j \in wc : j < k}
    IN IF Cardinality(own) >= 2 THEN cs[Len(cs) - 1] ELSE NoDep

\* callersStack[callersStack.length - 2]
getCaller(cs) == IF Len(cs) >= 2 THEN cs[Len(cs) - 1] ELSE NoDep

\* The client calls getCaller().
GetCaller ==
    \/ NoScope("getCaller", "")
    \/ /\ globalContainerContext # NoContainer
       /\ ev' = Ev("getCaller", "", "", globalContainerContext, "ok", Undefined,
                   getCaller(callersStack[globalContainerContext]))
       /\ UNCHANGED <<globalContainerContext, kind, dependenciesMap,
                      singletonsStateMap, callersStack, weakMaps, stack, i,
                      bindRef, base, computed, invoked, twin>>

\* ---------------------------------------------------------- leaving a frame
Pop(q) == IF q = <<>> THEN <<>> ELSE SubSeq(q, 1, Len(q) - 1)

\* A withContainer that clears the slot on exit instead of restoring it.
withContainerRestoreCleared(prevContext) == NoContainer

\* finally { globalContainerContext = prevContext }
withContainerRestore(prevContext) == prevContext

\* A WeakMap with one slot: storing the state of s drops every other entry.
singletonStoreOneSlot(m, s, v) ==
    [weakMaps EXCEPT ![m] = [EmptyWeakMap EXCEPT ![s] = Entry(v)]]

\* stateEntry = { state: fn() }; singletonsStateMap.set(self, stateEntry)
singletonStore(m, s, v) == [weakMaps EXCEPT ![m][s] = Entry(v)]

\* A singleton closure that stores an entry when fn throws.
singletonThrowStores(m, s) == [weakMaps EXCEPT ![m][s] = Entry(Undefined)]

\* fn() threw inside `stateEntry = { state: fn() }`: the assignment and the
\* set after it are not reached
singletonThrow(m, s) == weakMaps

\* A temporary container (the default argument of withContainer) is
\* referenced by nothing once its withContainer call has ended: its slot and
\* its WeakMap are forgotten.
Release(c) ==
    /\ kind' = [kind EXCEPT ![c] = "free"]
    /\ dependenciesMap' = [dependenciesMap EXCEPT ![c] = EmptyDependenciesMap]
    /\ singletonsStateMap' = [singletonsStateMap EXCEPT ![c] = NoContainer]
    /\ callersStack' = [callersStack EXCEPT ![c] = <<>>]
    /\ weakMaps' = [weakMaps EXCEPT ![c] = EmptyWeakMap]
    /\ base' = [base EXCEPT ![c] = NoContainer]
    /\ computed' = [computed EXCEPT ![c] = EmptyWeakMap]
    /\ invoked' = [invoked EXCEPT ![c] = {}]

\* fn of withContainer returned v (out = "ok") or threw (out an error).
ExitWithContainer(out, v) ==
    /\ Top.kind = "wc"
    /\ globalContainerContext' = withContainerRestore(Top.prev)
    /\ stack' = Pop(stack)
    /\ ev' = Ev("withContainer", "", "", Top.cont, out, v, NoDep)
    /\ IF kind[Top.cont] = "temp"
         THEN Release(Top.cont)
         ELSE UNCHANGED <<kind, dependenciesMap, singletonsStateMap,
                          callersStack, weakMaps, base, computed, invoked>>

\* A dependency that pops its entry only when depFn returns.
dependencyPopOnReturn(out, cs) == IF out = "ok" THEN Pop(cs) ELSE cs

\* try { return depFn() } finally { callersStack.pop() }
dependencyFinally(out, cs) == Pop(cs)

\* depFn of a dependency (a client function) returned v or threw.
ExitDependency(out, v) ==
    /\ Top.kind = "dep"
    /\ callersStack' =
         [callersStack EXCEPT ![Top.cont] = dependencyFinally(out, @)]
    /\ stack' = Pop(stack)
    /\ ev' = Ev("dep", Top.name, Top.fn, Top.cont, out, v, NoDep)
    /\ UNCHANGED <<globalContainerContext, kind, dependenciesMap,
                   singletonsStateMap, weakMaps, base, computed, invoked>>

\* fn of a singleton closure returned v or threw.  When the closure was
\* called as the depFn of a dependency, that dependency's closure ends in
\* the same step.
ExitSingleton(out, v) ==
    /\ Top.kind = "sing"
    /\ IF out = "ok"
         THEN /\ weakMaps' = singletonStore(Top.map, Top.name, v)
              /\ computed' =
                   [computed EXCEPT ![Root(Top.cont)][Top.name] =
                       IF @ = NoEntry THEN Entry(v) ELSE @]
         ELSE /\ weakMaps' = singletonThrow(Top.map, Top.name)
              /\ UNCHANGED computed
    /\ LET below == stack[Len(stack) - 1]
       IN IF Len(stack) >= 2 /\ below.kind = "dep" /\ below.fn \in SingletonFns
            THEN /\ callersStack' =
                      [callersStack EXCEPT ![below.cont] = dependencyFinally(out, @)]
                 /\ stack' = Pop(Pop(stack))
                 /\ ev' = Ev("dep", below.name, Top.name, below.cont, out, v,
                             NoDep)
            ELSE /\ stack' = Pop(stack)
                 /\ ev' = Ev("sing", Top.name, Top.name, Top.cont, out, v,
                             NoDep)
                 /\ UNCHANGED callersStack
    /\ UNCHANGED <<globalContainerContext, kind, dependenciesMap,
                   singletonsStateMap, base, invoked>>

Exit(out, v) ==
    \/ ExitWithContainer(out, v)
    \/ ExitDependency(out, v)
    \/ ExitSingleton(out, v)

\* What the running client function returns: rand (also inside sRand and
\* sRand2) returns i++; noop (also inside sUndef) returns undefined; the
\* body given to withContainer returns the value it last received.
UsesRand(f) == f \in {"rand", "sRand", "sRand2"}
BodyValue(f) ==
    IF UsesRand(f) THEN i
    ELSE IF f = "body" /\ ev.out = "ok" THEN ev.val
    ELSE Undefined

\* The running client function returns.
Return ==
    /\ stack # <<>>
    /\ UsesRand(Top.fn) => i < MaxRand
    /\ Exit("ok", BodyValue(Top.fn))
    /\ i' = IF UsesRand(Top.fn) THEN i + 1 ELSE i
    /\ UNCHANGED <<bindRef, twin>>

\* The running client function throws an error of its own.
Throw ==
    /\ stack # <<>>
    /\ Exit("UserErr", Undefined)
    /\ UNCHANGED <<bindRef, i, twin>>

\* The running client function does not catch the error the call it made
\* has thrown.
Propagate ==
    /\ stack # <<>>
    /\ ev.out \in Errors
    /\ Exit(ev.out, Undefined)
    /\ UNCHANGED <<bindRef, i, twin>>

\* ------------------------------------------------------------ specifications
\* The clients of the library.  They differ in the operations they call
\* and in the arguments they draw.

\* A client that holds at most MaxLive containers has room for one more.
Room(context) == context = NoContainer => Cardinality(Live) < MaxLive

\* The nesting client (the README's and the tests' getCaller example):
\* withContainer calls nest to any depth, over its own containers and over
\* temporary ones; the dependencies D and E resolve each other; it calls
\* the singleton closure only from top level.
NextScope ==
    \/ Room(NoContainer) /\ CreateContainer(NoContainer)
    \/ \E context \in {NoContainer} \cup Containers :
          Room(context) /\ WithContainer(context)
    \/ \E d \in {"D", "E"} : CallDep(d)
    \/ stack = <<>> /\ CallSingleton("sUndef")
    \/ Bind("D", "E")
    \/ GetCaller
    \/ Return
    \/ Throw
    \/ Propagate

Spec == Init /\ [][NextScope]_vars

\* The caching client (the tests "singletons in same / different
\* containers"): containers are created fresh and from one another; the
\* functions behind the dependencies are leaves, as rand is, so every call
\* is made from top level or from the body given to withContainer.
InBody == IF stack = <<>> THEN TRUE ELSE Top.kind = "wc"

NextCache ==
    \/ \E cont \in {NoContainer} \cup Containers :
          stack = <<>> /\ Room(NoContainer) /\ CreateContainer(cont)
    \/ \E context \in {NoContainer} \cup Containers :
          stack = <<>> /\ Room(context) /\ WithContainer(context)
    \/ \E d \in {"S", "U"} : InBody /\ CallDep(d)
    \/ Return
    \/ Throw
    \/ Propagate

SpecCache == Init /\ [][NextCache]_vars

\* The client of the test "transient vs singleton": it resolves T and S
\* side by side, in temporary containers and in containers of its own.
NextTransient ==
    \/ stack = <<>> /\ Room(NoContainer) /\ CreateContainer(NoContainer)
    \/ \E context \in {NoContainer} \cup Containers :
          stack = <<>> /\ Room(context) /\ WithContainer(context)
    \/ \E d \in {"T", "S"} : InBody /\ CallDep(d)
    \/ Return
    \/ Throw
    \/ Propagate

SpecTransient == Init /\ [][NextTransient]_vars

\* The rebinding client (the README's bind examples): it rebinds D and E to
\* a singleton function and to the functions behind other dependencies, in
\* one container made fresh, in its clones and in temporary containers.
NextBind ==
    \/ stack = <<>> /\ ExplicitContainers = {} /\ CreateContainer(NoContainer)
    \/ \E cont \in Containers :
          stack = <<>> /\ Room(NoContainer) /\ CreateContainer(cont)
    \/ \E context \in {NoContainer} \cup Containers :
          stack = <<>> /\ Room(context) /\ WithContainer(context)
    \/ \E d \in {"D", "E"} : InBody /\ CallDep(d)
    \/ \E d \in {"D", "E"}, fn \in {"sUndef", "E"} : Bind(d, fn)
    \/ Return
    \/ Throw
    \/ Propagate

SpecBind == Init /\ [][NextBind]_vars

\* The client of the test "bind": in one container of its own, used by one
\* withContainer call after another, it rebinds the transient T to a
\* singleton function and the singleton S to rand, and resolves both.
NextPersist ==
    \/ stack = <<>> /\ ExplicitContainers = {} /\ CreateContainer(NoContainer)
    \/ \E context \in Containers : stack = <<>> /\ WithContainer(context)
    \/ \E d \in {"T", "S"} : InBody /\ CallDep(d)
    \/ InBody /\ Bind("T", "sRand2")
    \/ InBody /\ Bind("S", "rand")
    \/ Return
    \/ Throw
    \/ Propagate

SpecPersist == Init /\ [][NextPersist]_vars

\* The rebinding client: in one container of its own, used by one
\* withContainer call after another, it binds the singleton S to its own
\* singleton function and to a second one, in any order, and resolves S.
NextRebind ==
    \/ stack = <<>> /\ ExplicitContainers = {} /\ CreateContainer(NoContainer)
    \/ \E context \in Containers : stack = <<>> /\ WithContainer(context)
    \/ InBody /\ CallDep("S")
    \/ \E fn \in {"sRand", "sRand2"} : InBody /\ Bind("S", fn)
    \/ Return
    \/ Throw
    \/ Propagate

SpecRebind == Init /\ [][NextRebind]_vars

\* The aliasing client: in one container of its own it rebinds E to a
\* singleton closure and back to a plain function, binds D to E, and
\* resolves both; D gets the singleton closure only through bind(D, E).
NextAlias ==
    \/ stack = <<>> /\ ExplicitContainers = {} /\ CreateContainer(NoContainer)
    \/ \E context \in Containers : stack = <<>> /\ WithContainer(context)
    \/ \E d \in {"D", "E"} : InBody /\ CallDep(d)
    \/ Bind("D", "E")
    \/ \E fn \in {"sUndef", "noop"} : Bind("E", fn)
    \/ Return
    \/ Throw
    \/ Propagate

SpecAlias == Init /\ [][NextAlias]_vars

\* The cloning client (the test "cloned containers"): one container made
\* fresh, clones of it and clones of the clones; S is resolved in each and
\* rebound to a second singleton function.
NextClone ==
    \/ stack = <<>> /\ ExplicitContainers = {} /\ CreateContainer(NoContainer)
    \/ \E cont \in Containers : stack = <<>> /\ CreateContainer(cont)
    \/ \E context \in Containers : stack = <<>> /\ WithContainer(context)
    \/ InBody /\ CallDep("S")
    \/ InBody /\ Bind("S", "sRand2")
    \/ Return
    \/ Throw
    \/ Propagate

SpecClone == Init /\ [][NextClone]_vars

\* The comparing client makes the calls of the test "cloned containers",
\* each a whole top-level call, twice over: in the run the variables hold
\* and in a second run, held in twin, that makes the same calls except one
\* bind in a clone.

\* withContainer(d, c) called from top level with the Maps dm, the WeakMaps
\* wm and rand at n, when depFn returns: the Maps, the WeakMaps and the
\* counter it leaves, and the value it returns.  depFn is rand or a
\* singleton closure over rand.
Resolve(dm, wm, n, c, d) ==
    LET depFn == depFnIn(dm, c, d)
        m == singletonsStateMap[c]
        hit == depFn \in SingletonFns /\ ~EntryMissing(wm[m][depFn])
        v == IF hit THEN wm[m][depFn][1] ELSE n
    IN [dependenciesMap |-> [dm EXCEPT ![c][d] = depFn],
        weakMaps |-> IF depFn \in SingletonFns /\ ~hit
                       THEN [wm EXCEPT ![m][depFn] = Entry(v)]
                       ELSE wm,
        i |-> IF hit THEN n ELSE n + 1,
        val |-> v]

\* c = createContainer(cont) in both runs.
TwinCreateContainer(cont) ==
    /\ FreeSlots # {}
    /\ cont \in {NoContainer} \cup ExplicitContainers
    /\ createContainer(cont, NewSlot, "explicit")
    /\ twin' = [twin EXCEPT !.dependenciesMap[NewSlot] =
                   IF cont = NoContainer THEN EmptyDependenciesMap
                                         ELSE twin.dependenciesMap[cont]]
    /\ ev' = Ev("createContainer", "", "", NewSlot, "ok", Undefined, NoDep)
    /\ UNCHANGED <<globalContainerContext, weakMaps, stack, i, bindRef,
                   computed, invoked>>

\* withContainer(d, c) in both runs.
TwinResolve(c, d) ==
    /\ c \in ExplicitContainers
    /\ i < MaxRand
    /\ twin.i < MaxRand
    /\ LET r == Resolve(dependenciesMap, weakMaps, i, c, d)
           t == Resolve(twin.dependenciesMap, twin.weakMaps, twin.i, c, d)
       IN /\ dependenciesMap' = r.dependenciesMap
          /\ weakMaps' = r.weakMaps
          /\ i' = r.i
          /\ ev' = Ev("withContainer", d, dependencyDepFn(c, d), c, "ok", r.val,
                      NoDep)
          /\ twin' = [twin EXCEPT
                        !.dependenciesMap = t.dependenciesMap,
                        !.weakMaps = t.weakMaps,
                        !.i = t.i,
                        !.val = t.val,
                        !.split = @ \/ dependencyDepFn(c, d)
                                          # depFnIn(twin.dependenciesMap, c, d)]
    /\ UNCHANGED <<globalContainerContext, kind, singletonsStateMap,
                   callersStack, stack, bindRef, base, computed, invoked>>

\* withContainer((bind) => bind(S, sRand2), c) for a clone c, in the first
\* run only and once.
TwinBind(c) ==
    /\ c \in ExplicitContainers
    /\ base[c] # NoContainer
    /\ twin.bound = NoContainer
    /\ dependenciesMap' =
         [dependenciesMap EXCEPT ![bindTarget(c)]["S"] = bindFn(c, "sRand2")]
    /\ ev' = [Ev("bind", "S", bindFn(c, "sRand2"), c, "ok", Undefined, NoDep)
                  EXCEPT !.arg = "sRand2"]
    /\ twin' = [twin EXCEPT !.bound = c]
    /\ UNCHANGED <<globalContainerContext, kind, singletonsStateMap,
                   callersStack, weakMaps, stack, i, bindRef, base, computed,
                   invoked>>

NextTwin ==
    \/ \E cont \in {NoContainer} \cup Containers : TwinCreateContainer(cont)
    \/ \E c \in Containers, d \in {"S", "T"} : TwinResolve(c, d)
    \/ \E c \in Containers : TwinBind(c)

SpecTwin == Init /\ [][NextTwin]_vars

\* ================================================================= properties
WcFrames == {k \in 1..Len(stack) : stack[k].kind = "wc"}
Innermost == CHOOSE k \in WcFrames : \A j \in WcFrames : j <= k
\* The context of the innermost withContainer invocation in progress.
InnermostContext == IF WcFrames = {} THEN NoContainer ELSE stack[Innermost].cont

\* C1: at every moment the ambient slot holds the context of the innermost
\* withContainer invocation in progress, and none when no invocation is in
\* progress; so when an invocation ends, by return or by throw and at any
\* depth, the slot is back at the value it had when that invocation started
\* (the context of the enclosing invocation, or none).
C1_SlotRestored == globalContainerContext = InnermostContext

\* C1 witness: a nested withContainer over another container has just ended
\* by a throw and the enclosing invocation is still in progress.
C1_Witness ==
    /\ ev.op = "withContainer"
    /\ ev.out \in Errors
    /\ stack # <<>>
    /\ globalContainerContext # NoContainer
    /\ ev.cont # globalContainerContext

\* ---------------------------------------------------------------------- C2
\* The operations that read the ambient slot through _context().
ScopedOps == {"dep", "sing", "bind", "getCaller"}

\* C2: a call of a dependency, of a singleton closure, of bind or of getCaller
\* made while the ambient slot is none ends with the no-active-scope error,
\* and the overrides, the singleton cache and the caller stack of every
\* container are what they were before the call.
C2_NoScopeFails ==
    [][(globalContainerContext = NoContainer /\ ev'.op \in ScopedOps)
         => /\ ev'.out = "NoScope"
            /\ ev'.cont = NoContainer
            /\ UNCHANGED <<kind, dependenciesMap, singletonsStateMap, weakMaps,
                           callersStack, globalContainerContext>>]_vars

\* C2 witness: a bind reference kept from an earlier withContainer has been
\* called with no invocation in progress and failed, while a container holds
\* the override that an earlier bind wrote.
C2_Witness ==
    /\ ev.op = "bind"
    /\ ev.out = "NoScope"
    /\ globalContainerContext = NoContainer
    /\ \E c \in Containers :
          kind[c] = "explicit" /\ dependenciesMap[c]["D"] = DefaultFn("E")

\* ---------------------------------------------------------------------- C3

\* The step just taken ended a resolution of dependency d with a value.
Resolved(d) == ev.op = "dep" /\ ev.name = d /\ ev.out = "ok"

\* The singleton frames on the control stack: the wrapped functions running.
SingFrames == {k \in 1..Len(stack) : stack[k].kind = "sing"}

C4_IndependentLineages ==
    /\ \A c \in Live : \A s \in SingletonFns :
          weakMaps[singletonsStateMap[c]][s] = computed[Root(c)][s]
    /\ \A c1, c2 \in Live :
          (/\ Root(c1) # Root(c2)
           /\ computed[Root(c1)]["sRand"] # NoEntry
           /\ computed[Root(c2)]["sRand"] # NoEntry)
          => computed[Root(c1)]["sRand"] # computed[Root(c2)]["sRand"]

\* C4 witness: S has just resolved to 1 in a temporary container while an
\* independent explicit container holds 0 for it.
C4_Witness ==
    /\ Resolved("S")
    /\ ev.val = 1
    /\ kind[ev.cont] = "temp"
    /\ \E c \in Live :
          /\ kind[c] = "explicit"
          /\ weakMaps[singletonsStateMap[c]]["sRand"] = Entry(0)

\* ---------------------------------------------------------------------- C5
\* C5: T is governed by the plain function rand.  A resolution of T that is
\* in progress has rand running (one frame of it per resolution), and every
\* resolution of T that returns a value returns the value rand has just
\* produced, i - 1, never an earlier one.
C5_TransientRecomputes ==
    /\ (ev.op = "dep" /\ ev.name = "T" /\ ev.out = "run") =>
          /\ stack # <<>>
          /\ Top = DepFrame("T", ev.cont, "rand")
    /\ Resolved("T") => (ev.fn = "rand" /\ ev.val = i - 1)

\* C5 witness: the second resolution of T in one scope has returned 1.
C5_Witness ==
    /\ Resolved("T")
    /\ ev.val = 1
    /\ i = 2
    /\ Len(stack) = 1
    /\ \A c \in Live : weakMaps[singletonsStateMap[c]]["sRand"] = NoEntry

\* ---------------------------------------------------------------------- C6
\* The entry container c reads when it resolves S: the entry, in the WeakMap
\* c holds, of the singleton closure that governs S in c.
CachedS(c) == weakMaps[singletonsStateMap[c]][dependencyDepFn(c, "S")]

\* C6: a clone starts with the function and the cached value its base has
\* for S; a resolution of S that returns, returns the cached value of its
\* container; two containers of one lineage that both have a value for S
\* have the same value exactly when the same function governs S in both, so
\* a clone keeps the value of its base until S is rebound in one of them to
\* another function, and has another value after that; and the value a
\* container has for S changes only by a bind made in that container, so
\* the base keeps its value when a clone rebinds.  Clones of clones are
\* containers of the same lineage.
C6_CloneSharesUntilRebind ==
    /\ [](\A c \in Live, c2 \in Live :
            (Root(c) = Root(c2) /\ CachedS(c) # NoEntry /\ CachedS(c2) # NoEntry)
               => ((CachedS(c) = CachedS(c2))
                      <=> (dependencyDepFn(c, "S") = dependencyDepFn(c2, "S"))))
    /\ [](Resolved("S") => CachedS(ev.cont) = Entry(ev.val))
    /\ [][(\A c \in Live :
              (CachedS(c) # NoEntry /\ ~(ev'.op = "bind" /\ ev'.cont = c))
                 => (CachedS(c)' = CachedS(c)))
           /\ (\A n \in Containers, b \in Containers :
                 (ev'.op = "createContainer" /\ ev'.cont = n /\ base'[n] = b)
                    => (/\ dependencyDepFn(n, "S")' = dependencyDepFn(b, "S")
                        /\ CachedS(n)' = CachedS(b)))]_vars

\* C6 witness: c3 is a clone of c2 and c2 a clone of c1; S has resolved to 0
\* in c1 and in c2 through sRand; c3 has rebound S to sRand2 and S has just
\* resolved in c3 to 1.
C6_Witness ==
    /\ Resolved("S")
    /\ ev.val = 1
    /\ ev.fn = "sRand2"
    /\ base[ev.cont] # NoContainer
    /\ base[base[ev.cont]] # NoContainer
    /\ dependenciesMap[base[ev.cont]]["S"] = "sRand"
    /\ dependenciesMap[base[base[ev.cont]]]["S"] = "sRand"
    /\ CachedS(base[ev.cont]) = Entry(0)
    /\ CachedS(base[base[ev.cont]]) = Entry(0)

\* ---------------------------------------------------------------------- C7
\* C7: a bind(D, f) that succeeds while container C is ambient writes the
\* entry for D of C's dependenciesMap and nothing else: every other entry of
\* C and every entry of every other container, the container C was cloned
\* from and the clones of C included, is what it was, and so is the function
\* every other dependency and every other container resolves through.
C7_BindChangesOneEntry ==
    [][(ev'.op = "bind" /\ ev'.out = "ok")
         => /\ ev'.cont = globalContainerContext
            /\ dependenciesMap'[ev'.cont][ev'.name] = ev'.fn
            /\ \A c \in Containers, d \in Deps :
                  (c # globalContainerContext \/ d # ev'.name)
                     => /\ dependenciesMap'[c][d] = dependenciesMap[c][d]
                        /\ dependencyDepFn(c, d)' = dependencyDepFn(c, d)]_vars

\* C7 witness: a bind has just succeeded in a clone, and the container the
\* clone was made from holds another override for the same dependency.
C7_Witness ==
    /\ ev.op = "bind"
    /\ ev.out = "ok"
    /\ base[ev.cont] # NoContainer
    /\ dependenciesMap[base[ev.cont]][ev.name] # NoFn
    /\ dependenciesMap[base[ev.cont]][ev.name] # dependenciesMap[ev.cont][ev.name]

\* ---------------------------------------------------------------------- C8
\* The container the rebound clone was made from.
TwinParent == base[twin.bound]

C9_BindAliasesCurrentFn ==
    (ev.op = "bind" /\ ev.out = "ok" /\ IsDependency(ev.arg))
       => /\ dependencyDepFn(ev.cont, ev.name) = dependencyDepFn(ev.cont, ev.arg)
          /\ dependenciesMap[ev.cont][ev.name] = ev.fn
          /\ IF dependenciesMap[ev.cont][ev.arg] # NoFn
               THEN ev.fn = dependenciesMap[ev.cont][ev.arg]
               ELSE ev.fn = DefaultFn(ev.arg)

\* C9 witness: bind(D, E) has just succeeded in a container where E had been
\* rebound to a singleton closure, which is not E's default function.
C9_Witness ==
    /\ ev.op = "bind"
    /\ ev.out = "ok"
    /\ ev.name = "D"
    /\ ev.arg = "E"
    /\ ev.fn = "sUndef"
    /\ DefaultFn("E") # "sUndef"
    /\ dependenciesMap[ev.cont]["D"] = "sUndef"

\* --------------------------------------------------------------------- C10
\* The dependency frames under the running one, in any container.
DepFramesBelowTop == {k \in 1..(Len(stack) - 1) : stack[k].kind = "dep"}
\* The innermost dependency whose resolution was in progress when the
\* running one started.
InnermostParent ==
    stack[CHOOSE k \in DepFramesBelowTop : \A j \in DepFramesBelowTop : j <= k].name

\* C10: a getCaller() call made directly inside the function of a dependency
\* whose resolution started while the resolution of P was the innermost one
\* in progress returns P.
C10_AsStated ==
    (/\ ev.op = "getCaller"
     /\ ev.out = "ok"
     /\ stack # <<>>
     /\ DepFramesBelowTop # {})
        => (Top.kind = "dep" => ev.caller = InnermostParent)

\* --------------------------------------------------------------------- C11
\* The dependency frames on the control stack: the resolutions in progress,
\* in any container.
DepFrames == {k \in 1..Len(stack) : stack[k].kind = "dep"}

\* C11: a getCaller() call that finds zero or one entries on the caller
\* stack of the ambient container returns none; so it returns none when no
\* resolution is in progress and when exactly one is, and it returns a
\* dependency only when at least two resolutions are in progress.
C11_NoneBelowTwoEntries ==
    (ev.op = "getCaller" /\ ev.out = "ok")
       => /\ Len(callersStack[ev.cont]) <= 1 => ev.caller = NoDep
          /\ Cardinality(DepFrames) <= 1 => ev.caller = NoDep
          /\ ev.caller # NoDep
                => (Cardinality(DepFrames) >= 2 /\ Len(callersStack[ev.cont]) >= 2)

\* C11 witness: getCaller has returned none to the function of the only
\* dependency whose resolution is in progress.
C11_Witness ==
    /\ ev.op = "getCaller"
    /\ ev.out = "ok"
    /\ ev.caller = NoDep
    /\ stack # <<>>
    /\ Top.kind = "dep"
    /\ Cardinality(DepFrames) = 1
    /\ callersStack[ev.cont] = <<Top.name>>

\* --------------------------------------------------------------------- C12
\* The step calls a dependency (it does not leave one).
DepCalled == ev'.op = "dep" /\ ev'.out \in {"run", "ok"} /\ Len(stack') >= Len(stack)

\* C12: an entry of the dependenciesMap of an explicitly created container
\* stays what it is, through the end of the withContainer invocation that
\* made it and through later invocations, until a bind for that dependency
\* succeeds in that container; and every call of a dependency that has an
\* entry goes through the entry.  T bound to the singleton function sRand2
\* returns the value sRand2 first computed; S bound to rand returns the
\* value rand has just produced.
C12_BindPersists ==
    /\ [][(\A c \in ExplicitContainers, d \in Deps :
              dependenciesMap[c][d] # NoFn
                 => (\/ dependenciesMap'[c][d] = dependenciesMap[c][d]
                     \/ (ev'.op = "bind" /\ ev'.out = "ok" /\ ev'.cont = c
                          /\ ev'.name = d /\ dependenciesMap'[c][d] = ev'.fn)))
           /\ ((DepCalled /\ dependenciesMap[ev'.cont][ev'.name] # NoFn)
                 => ev'.fn = dependenciesMap[ev'.cont][ev'.name])]_vars
    /\ []((Resolved("T") /\ ev.fn = "sRand2")
            => computed[Root(ev.cont)]["sRand2"] = Entry(ev.val))
    /\ []((Resolved("S") /\ ev.fn = "rand") => ev.val = i - 1)

\* C12 witness: in a container where S is bound to rand and T to sRand2, T
\* has resolved to 0, the value sRand2 computed two calls of rand ago, at
\* the top of a withContainer body.
C12_Witness ==
    /\ Resolved("T")
    /\ ev.fn = "sRand2"
    /\ ev.val = 0
    /\ i = 2
    /\ dependenciesMap[ev.cont]["S"] = "rand"
    /\ dependenciesMap[ev.cont]["T"] = "sRand2"
    /\ Len(stack) = 1

\* --------------------------------------------------------------------- C13
\* The dependencies whose resolution in container c is in progress,
\* outermost first.
InProgress(c) ==
    LET InC(f) == f.kind = "dep" /\ f.cont = c
        frames == SelectSeq(stack, InC)
    IN [k \in 1..Len(frames) |-> frames[k].name]

\* C13: the caller stack of every container is the sequence, outermost
\* first, of the dependencies whose resolution in that container is in
\* progress; it is empty when none is.
C13_CallerStackIsInProgress ==
    \A c \in Containers : callersStack[c] = InProgress(c)

\* C13 witness: the function of E, called by the function of D, has thrown;
\* D's resolution is still in progress and is alone on the caller stack.
C13_Witness ==
    /\ ev.op = "dep"
    /\ ev.name = "E"
    /\ ev.out = "UserErr"
    /\ stack # <<>>
    /\ Top.kind = "dep"
    /\ callersStack[ev.cont] = <<"D">>

\* --------------------------------------------------------------------- C14
\* C14: a successful call of the bind that a withContainer invocation in
\* progress over C gave to its body stores the binding into C's
\* dependenciesMap and leaves the dependenciesMap of every other container
\* as it was, whichever container is ambient.  (withContainer gives every
\* body the same function, so the call is a call of the bind of every
\* invocation in progress.)
C14_AsStated ==
    [][(ev'.op = "bind" /\ ev'.out = "ok")
         => \A k \in WcFrames :
               /\ dependenciesMap'[stack[k].cont][ev'.name] = ev'.fn
               /\ \A c \in Containers \ {stack[k].cont} :
                     dependenciesMap'[c] = dependenciesMap[c]]_vars

GoverningEntry(dm, wm, c) == wm[singletonsStateMap[c]][depFnIn(dm, c, "S")]

\* C16: rebinding never invalidates the singleton cache.  No step removes
\* or changes an entry of a WeakMap, and a bind leaves the WeakMaps as they
\* are; a bind of S to the function that already governs it leaves the
\* governing function and its entry as they were; a resolution of S whose
\* governing function has no entry starts that function, and the value it
\* returns is a fresh one, stored under that function; a resolution of S
\* whose governing function has an entry (the function was bound earlier,
\* computed, and bound back) returns the state of that entry and no
\* function is called.
C16_RebindKeepsCache ==
    [][/\ (\A m \in Containers, s \in SingletonFns :
              weakMaps[m][s] # NoEntry => weakMaps'[m][s] = weakMaps[m][s])
       /\ ((ev'.op = "bind" /\ ev'.out = "ok")
              => /\ weakMaps' = weakMaps
                 /\ (ev'.fn = depFnIn(dependenciesMap, ev'.cont, "S")
                       => /\ depFnIn(dependenciesMap', ev'.cont, "S") = ev'.fn
                          /\ GoverningEntry(dependenciesMap', weakMaps', ev'.cont)
                               = GoverningEntry(dependenciesMap, weakMaps, ev'.cont)))
       /\ ((DepCalled /\ ev'.name = "S")
              => /\ ev'.fn = depFnIn(dependenciesMap, ev'.cont, "S")
                 /\ IF GoverningEntry(dependenciesMap, weakMaps, ev'.cont) = NoEntry
                      THEN /\ ev'.out = "run"
                           /\ Top'.kind = "sing"
                           /\ Top'.name = ev'.fn
                      ELSE /\ ev'.out = "ok"
                           /\ Entry(ev'.val)
                                = GoverningEntry(dependenciesMap, weakMaps, ev'.cont)
                           /\ stack' = stack
                           /\ invoked' = invoked
                           /\ i' = i)
       /\ ((Resolved("S")' /\ Len(stack') < Len(stack))
              => /\ ev'.val = i
                 /\ i' = i + 1
                 /\ weakMaps'[singletonsStateMap[ev'.cont]][ev'.fn] = Entry(i)
                 /\ \A s \in SingletonFns :
                       weakMaps[singletonsStateMap[ev'.cont]][s] # Entry(i))]_vars

\* C16 witness: S, bound back to sRand, resolves to 0, the value sRand
\* computed before S was rebound to sRand2, which has computed 1 since.
C16_Witness ==
    /\ Resolved("S")
    /\ ev.fn = "sRand"
    /\ ev.val = 0
    /\ i = 2
    /\ dependenciesMap[ev.cont]["S"] = "sRand"
    /\ weakMaps[singletonsStateMap[ev.cont]]["sRand"] = Entry(0)
    /\ weakMaps[singletonsStateMap[ev.cont]]["sRand2"] = Entry(1)
    /\ Len(stack) = 1

\* --------------------------------------------------------------------- C17
\* The dependency frames pushed since the innermost withContainer call in
\* progress began.
DepFramesOfInnermost == {k \in DepFrames : \A j \in WcFrames : j < k}

\* C17 as stated: a getCaller call that returns a dependency returns one
\* whose resolution began in the innermost withContainer call in progress
\* (at least two resolutions have begun in it).
C17_AsStated ==
    (ev.op = "getCaller" /\ ev.out = "ok" /\ ev.caller # NoDep)
       => Cardinality(DepFramesOfInnermost) >= 2

\* C17 amended: getCaller returns the last but one of the dependencies
\* whose resolution is in progress in the ambient container, whichever
\* withContainer call over that container they began in, and undefined
\* when fewer than two are in progress there.
C17_CallersOfContainer ==
    (ev.op = "getCaller" /\ ev.out = "ok")
       => LET frames == InProgress(ev.cont)
          IN ev.caller = IF Len(frames) >= 2 THEN frames[Len(frames) - 1]
                                             ELSE NoDep

\* C17 witness: E is resolving directly in a withContainer call that the
\* function of D made over the container D is resolving in, and getCaller
\* in E has returned D.
C17_Witness ==
    /\ ev.op = "getCaller"
    /\ ev.out = "ok"
    /\ ev.caller = "D"
    /\ Len(stack) = 4
    /\ Top.kind = "dep"
    /\ Top.name = "E"
    /\ Top.cont = ev.cont
    /\ stack[3].kind = "wc"
    /\ stack[3].cont = ev.cont
    /\ stack[2].kind = "dep"
    /\ stack[2].name = "D"
    /\ stack[2].cont = ev.cont
    /\ DepFramesOfInnermost = {4}

\* --------------------------------------------------------------------- C18
\* C18: a resolution step (a dependency is called, or the call ends) leaves
\* the function governing every dependency in every container as it was;
\* the only entry of a dependenciesMap it changes is the entry of the
\* called dependency in the ambient container, from no entry to that
\* dependency's default function, when the call starts.
C18_ResolutionKeepsBinding ==
    [][ev'.op = "dep"
         => \A c \in Containers, d \in Deps :
               /\ depFnIn(dependenciesMap', c, d) = depFnIn(dependenciesMap, c, d)
               /\ (dependenciesMap'[c][d] # dependenciesMap[c][d]
                     => (/\ DepCalled
                         /\ c = ev'.cont
                         /\ c = globalContainerContext
                         /\ d = ev'.name
                         /\ dependenciesMap[c][d] = NoFn
                         /\ dependenciesMap'[c][d] = DefaultFn(d)))]_vars

\* C18 witness: E has been called in a container and runs its default
\* function, now its entry there, while D, rebound to a singleton closure
\* that is not its default, and resolved since, keeps that override.
C18_Witness ==
    /\ ev.op = "dep"
    /\ ev.name = "E"
    /\ ev.out = "run"
    /\ ev.fn = DefaultFn("E")
    /\ dependenciesMap[ev.cont]["E"] = DefaultFn("E")
    /\ dependenciesMap[ev.cont]["D"] = "sUndef"
    /\ DefaultFn("D") # "sUndef"
    /\ weakMaps[singletonsStateMap[ev.cont]]["sUndef"] = Entry(Undefined)

\* --------------------------------------------------------------------- C19
\* C19: when the function wrapped by a singleton throws, the resolution
\* ends with that error at its caller and the WeakMaps are as they were, so
\* there is still no entry for the function; a resolution through a
\* singleton function with no entry starts the wrapped function, whether
\* or not it has been called before; when the wrapped function returns,
\* its entry is stored, and the wrapped function is never running for a
\* WeakMap that has an entry for it.
C19_ThrowStoresNothing ==
    /\ [][/\ ((ev'.op = "dep" /\ ev'.out = "UserErr" /\ ev'.fn \in SingletonFns)
                 => /\ Top.kind = "sing"
                    /\ Top.name = ev'.fn
                    /\ stack' = Pop(Pop(stack))
                    /\ weakMaps' = weakMaps
                    /\ weakMaps'[Top.map][ev'.fn] = NoEntry)
           /\ ((DepCalled /\ ev'.fn \in SingletonFns
                  /\ weakMaps[singletonsStateMap[ev'.cont]][ev'.fn] = NoEntry)
                 => /\ ev'.out = "run"
                    /\ Top'.kind = "sing"
                    /\ Top'.name = ev'.fn
                    /\ Top'.map = singletonsStateMap[ev'.cont])
           /\ ((Resolved("S")' \/ Resolved("U")')
                 => weakMaps'[singletonsStateMap[ev'.cont]][ev'.fn]
                      = Entry(ev'.val))]_vars
    /\ [](\A k \in SingFrames :
            weakMaps[stack[k].map][stack[k].name] = NoEntry)

\* C19 witness: the resolution of S has ended, at the body that called it,
\* with the error the wrapped function threw; the wrapped function has been
\* called for this container and there is no entry for it, while sUndef,
\* which returned, has its entry.
C19_Witness ==
    /\ ev.op = "dep"
    /\ ev.name = "S"
    /\ ev.fn = "sRand"
    /\ ev.out = "UserErr"
    /\ "sRand" \in invoked[Root(ev.cont)]
    /\ weakMaps[singletonsStateMap[ev.cont]]["sRand"] = NoEntry
    /\ weakMaps[singletonsStateMap[ev.cont]]["sUndef"] = Entry(Undefined)
    /\ Len(stack) = 1
    /\ Top.kind = "wc"
    /\ Top.cont = ev.cont

\* --------------------------------------------------------------------- C20
\* C20: bind(A, B) with B a dependency stores for A the function that
\* governs B in the ambient container when the bind is executed; a later
\* bind of another dependency (B among them) makes its own dependency
\* resolve through the function it stores and leaves the entry of A as it
\* was; the entry of A changes only by a bind of A in that container; and
\* A resolves through its entry.
C20_AliasIsSnapshot ==
    [][/\ ((ev'.op = "bind" /\ ev'.out = "ok")
              => /\ (IsDependency(ev'.arg)
                       => dependenciesMap'[ev'.cont][ev'.name]
                            = depFnIn(dependenciesMap, ev'.cont, ev'.arg))
                 /\ depFnIn(dependenciesMap', ev'.cont, ev'.name) = ev'.fn
                 /\ \A a \in Deps \ {ev'.name} :
                       dependenciesMap'[ev'.cont][a]
                         = dependenciesMap[ev'.cont][a])
       /\ (\A c \in Containers, a \in Deps :
              (dependenciesMap[c][a] # NoFn
                 /\ dependenciesMap'[c][a] # dependenciesMap[c][a])
                => (ev'.op = "bind" /\ ev'.out = "ok" /\ ev'.cont = c
                      /\ ev'.name = a))
       /\ ((DepCalled /\ dependenciesMap[ev'.cont][ev'.name] # NoFn)
              => ev'.fn = dependenciesMap[ev'.cont][ev'.name])]_vars

\* C20 witness: D has been called and resolves through the singleton
\* closure that governed E when bind(D, E) was executed, although E has
\* been bound to noop since.
C20_Witness ==
    /\ ev.op = "dep"
    /\ ev.name = "D"
    /\ ev.fn = "sUndef"
    /\ ev.out \in {"run", "ok"}
    /\ dependenciesMap[ev.cont]["D"] = "sUndef"
    /\ dependenciesMap[ev.cont]["E"] = "noop"
    /\ DefaultFn("D") # "sUndef"

=============================================================================
